---- MODULE Spec2Model ----
(***************************************************************************)
(* A model of the watermelon / polaroid API of src/api/main.py and of the  *)
(* sticker helper of src/api/helpers/chibi_drawing.py.                     *)
(*                                                                         *)
(* The S3 bucket is the state: the two JSON list objects                   *)
(* (data/watermelons.json, data/polaroids.json) and the set of image       *)
(* objects.  Every handler is an `async def` run on one event loop and the *)
(* boto3 calls are blocking, so a handler is atomic except at its `await`: *)
(* the only awaits are the two calls of analyse_polaroid_image, in         *)
(* create_polaroid and in regenerate_stickers_for_polaroid.  Those two     *)
(* handlers are therefore split in a part before and a part after the      *)
(* await; a suspended handler keeps its local variables in `inflight`.     *)
(*                                                                         *)
(* Environment: put_object of a list, delete_object of an image and        *)
(* upload_fileobj of an image may raise; get_object of a list either       *)
(* succeeds or reports NoSuchKey.  uuid4() never repeats a value: it is a  *)
(* counter.  Sticker.id and Sticker.on_back are not modelled (no handler   *)
(* reads them).                                                            *)
(***************************************************************************)
EXTENDS Integers, Sequences, FiniteSets, TLC

\* Bounds of the model.
MaxUuid == 4
MaxTasks == 2
MaxInFlight == 1
MaxRequests == 4

VARIABLES
    s3_client,   \* main.py:28-39: TRUE iff the S3 environment is fully configured
    bucket,      \* the image objects present in the bucket (their keys)
    wmFile,      \* the object data/watermelons.json
    plFile,      \* the object data/polaroids.json
    uuids,       \* number of uuid4() values issued so far
    inflight,    \* handlers suspended at `await analyse_polaroid_image`
    last,        \* the handler step taken last: its request and its response;
                 \* last.seq counts the steps
    acked,       \* history: ids whose DELETE was answered 204
    created      \* history: <<id, src, entity>> of every record a create appended

vars == <<s3_client, bucket, wmFile, plFile, uuids, inflight, last, acked, created>>

store == <<bucket, wmFile, plFile>>

----------------------------------------------------------------------------
\* Generic sequence helpers.

RECURSIVE IndexOf(_, _, _)
\* First position >= i of s that holds x, 0 if there is none.
IndexOf(s, x, i) ==
    IF i > Len(s) THEN 0
    ELSE IF s[i] = x THEN i
    ELSE IndexOf(s, x, i + 1)

RemoveAt(s, i) == SubSeq(s, 1, i - 1) \o SubSeq(s, i + 1, Len(s))

----------------------------------------------------------------------------
\* URLs and keys.

NoUrl == [host |-> "", path |-> 0]

BucketHost == "bucket.s3.region.amazonaws.com"

get_s3_url(file_name) ==
    IF ~s3_client THEN NoUrl
    ELSE [host |-> BucketHost, path |-> file_name]

get_s3_key_from_url(url) == url.path

----------------------------------------------------------------------------
\* The image payload: a data URL, as a sequence of symbols.

\* str.split(sep): the pieces of s between the occurrences of sep.
RECURSIVE Split(_, _)
Split(s, sep) ==
    LET i == IndexOf(s, sep, 1) IN
    IF i = 0 THEN <<s>>
    ELSE <<SubSeq(s, 1, i - 1)>> \o Split(SubSeq(s, i + 1, Len(s)), sep)

\* str.split(sep, 1): at most one cut.
SplitOnce(s, sep) ==
    LET i == IndexOf(s, sep, 1) IN
    IF i = 0 THEN <<s>>
    ELSE <<SubSeq(s, 1, i - 1), SubSeq(s, i + 1, Len(s))>>

Base64Alphabet == {"A", "B", "C", "D"}

\* binascii.a2b_base64 without validate: symbols outside the alphabet are
\* skipped, "=" closes a quad of two or three data symbols, and the
\* number of data symbols must then be a multiple of four.
RECURSIVE A2bScan(_, _, _, _)
A2bScan(s, i, quad_pos, pads) ==
    IF i > Len(s) THEN quad_pos = 0
    ELSE IF s[i] = "=" THEN
        IF quad_pos >= 2
        THEN (IF quad_pos + pads + 1 >= 4 THEN TRUE
              ELSE A2bScan(s, i + 1, quad_pos, pads + 1))
        ELSE A2bScan(s, i + 1, quad_pos, pads)
    ELSE IF s[i] \notin Base64Alphabet THEN A2bScan(s, i + 1, quad_pos, pads)
    ELSE A2bScan(s, i + 1, (quad_pos + 1) % 4, 0)

\* base64.b64decode(encoded) returns (TRUE) or raises binascii.Error (FALSE).
b64decode(encoded) == A2bScan(encoded, 1, 0, 0)

WatermelonExts == {<<"jpeg">>, <<"jpg">>, <<"png">>, <<"gif">>}

PolaroidExts == WatermelonExts \cup {<<"webp">>}

\* The try block of the create handlers up to the upload: TRUE iff no
\* exception is raised before s3_client.upload_fileobj is called.
AcceptImage(image_base64, allowed) ==
    LET parts == SplitOnce(image_base64, ",") IN
    /\ Len(parts) = 2                                 \* header, encoded = ...
    /\ LET byColon == Split(parts[1], ":") IN
       /\ Len(byColon) >= 2                           \* header.split(":")[1]
       /\ LET media_type == Split(byColon[2], ";")[1]
              bySlash == Split(media_type, "/")
          IN /\ Len(bySlash) >= 2                     \* media_type.split("/")[1]
             /\ bySlash[2] \in allowed
             /\ b64decode(parts[2])

DataUrl(ext, body) == <<"data", ":", "image", "/", ext, ";", "base64", ",">> \o body

GoodBody == <<"A", "B", "C", "D">>

\* The request bodies tried for image_base64.
ImagePayloads ==
    { DataUrl("png", GoodBody),
      DataUrl("webp", GoodBody),
      DataUrl("bmp", GoodBody),
      GoodBody,                                             \* no comma
      DataUrl("png", <<"A", "B", "C">>),                    \* padding missing
      DataUrl("png", <<"@", "@", "@", "@">>) }              \* not base64

AcceptedAsWatermelon == {p \in ImagePayloads : AcceptImage(p, WatermelonExts)}

AcceptedAsPolaroid == {p \in ImagePayloads : AcceptImage(p, PolaroidExts)}

----------------------------------------------------------------------------
\* Records.

Ratings(t, j, s) == [texture |-> t, juiciness |-> j, sweetness |-> s]

DefaultRatings == Ratings(50, 50, 50)

\* Mutant: the rating defaults are the zero of the type, not the midpoint.
Watermelon_unrated(id, src) ==
    [id |-> id, src |-> src, createdAt |-> "now",
     rachy |-> Ratings(0, 0, 0), davey |-> Ratings(0, 0, 0)]

Watermelon(id, src) ==
    [id |-> id, src |-> src, createdAt |-> "now",
     rachy |-> DefaultRatings, davey |-> DefaultRatings]

\* The request bodies tried for PUT /watermelons/{id}.
WatermelonUpdates ==
    {[rachy |-> Ratings(10, 90, 0), davey |-> DefaultRatings, createdAt |-> "edited"],
     [rachy |-> DefaultRatings, davey |-> Ratings(100, 0, 35), createdAt |-> "edited"]}

\* for i, item in enumerate(data): if item.get("id") == wanted: ... break
RECURSIVE FindId(_, _, _)
FindId(data, wanted, i) ==
    IF i > Len(data) THEN 0
    ELSE IF data[i].id = wanted THEN i
    ELSE FindId(data, wanted, i + 1)

Ids(data) == {data[i].id : i \in 1..Len(data)}

\* The ids a client may put in a path: the id of every record created so far
\* and one that no record has (uuid4 values are numbered from 1).
PathIds(entity) == {0} \cup {c[1] : c \in {d \in created : d[3] = entity}}

----------------------------------------------------------------------------
\* The record stores.

\* A list object that is absent ("missing"), has no content ("empty") or
\* content that json.loads rejects ("corrupt").
EmptyFile(kind) == [kind |-> kind, data |-> <<>>]

JsonFile(data) == [kind |-> "json", data |-> data]

read_watermelons_data ==
    IF ~s3_client THEN <<>>
    ELSE IF wmFile.kind = "json" THEN wmFile.data
    ELSE <<>>

\* put_ok: whether put_object returns; FALSE is a ClientError, re-raised.
write_watermelons_data(data, put_ok) ==
    IF s3_client /\ put_ok THEN wmFile' = JsonFile(data)
    ELSE UNCHANGED wmFile

\* Whether a write call returns (TRUE) or raises (FALSE).
WriteReturns(put_ok) == ~s3_client \/ put_ok

----------------------------------------------------------------------------
\* Responses.

Resp(op, status, id, body) ==
    [seq |-> last.seq + 1, op |-> op, status |-> status, id |-> id, body |-> body,
     ai |-> "n/a", tasks |-> 0, rendered |-> 0, failed |-> {}, put_raised |-> FALSE,
     image |-> <<>>]

\* The 500 of a handler whose list write raised.
PutRaised(op, id) == [Resp(op, 500, id, <<>>) EXCEPT !.put_raised = TRUE]

\* The response of a create handler, with the image of its request.
CreateResp(response, image_base64) == [response EXCEPT !.image = image_base64]

\* The handler step answers (or suspends); at most MaxRequests steps are taken.
Respond(response) ==
    /\ last.seq < MaxRequests
    /\ last' = response

NoRequest ==
    [seq |-> 0, op |-> "none", status |-> 0, id |-> 0, body |-> <<>>,
     ai |-> "n/a", tasks |-> 0, rendered |-> 0, failed |-> {}, put_raised |-> FALSE,
     image |-> <<>>]

----------------------------------------------------------------------------
\* Watermelon endpoints.

\* Mutant: json.JSONDecodeError is not caught, the request fails.
get_watermelons_decode_error ==
    /\ Respond(IF s3_client /\ wmFile.kind = "corrupt"
               THEN Resp("get_watermelons", 500, 0, <<>>)
               ELSE Resp("get_watermelons", 200, 0, read_watermelons_data))
    /\ UNCHANGED <<s3_client, store, uuids, inflight, acked, created>>

get_watermelons ==
    /\ Respond(Resp("get_watermelons", 200, 0, read_watermelons_data))
    /\ UNCHANGED <<s3_client, store, uuids, inflight, acked, created>>

create_watermelon(image_base64, upload_ok, put_ok) ==
    IF ~s3_client THEN
        /\ Respond(CreateResp(Resp("create_watermelon", 500, 0, <<>>), image_base64))
        /\ UNCHANGED <<s3_client, store, uuids, inflight, acked, created>>
    ELSE IF ~(image_base64 \in AcceptedAsWatermelon /\ upload_ok) THEN
        /\ Respond(CreateResp(Resp("create_watermelon", 400, 0, <<>>), image_base64))
        /\ UNCHANGED <<s3_client, store, uuids, inflight, acked, created>>
    ELSE
        LET image_name == uuids + 1
            image_url == get_s3_url(image_name)
            new_watermelon == Watermelon(uuids + 2, image_url)
            watermelons_data == Append(read_watermelons_data, new_watermelon)
        IN  /\ uuids + 2 <= MaxUuid
            /\ uuids' = uuids + 2
            /\ bucket' = bucket \cup {image_name}
            /\ write_watermelons_data(watermelons_data, put_ok)
            /\ Respond(CreateResp(
                   IF WriteReturns(put_ok)
                   THEN Resp("create_watermelon", 201, new_watermelon.id, <<new_watermelon>>)
                   ELSE PutRaised("create_watermelon", new_watermelon.id), image_base64))
            /\ created' = IF WriteReturns(put_ok)
                          THEN created \cup {<<new_watermelon.id, image_url, "watermelon">>}
                          ELSE created
            /\ UNCHANGED <<s3_client, plFile, inflight, acked>>

\* update_watermelon from "Update the dictionary in place" to its return.
StoreWatermelonUpdate(watermelons_data, index_to_update, watermelon_id, payload, put_ok) ==
    LET watermelon_to_update ==
            [watermelons_data[index_to_update] EXCEPT
                !.rachy = payload.rachy,
                !.davey = payload.davey,
                !.createdAt = payload.createdAt]
        updated == [watermelons_data EXCEPT ![index_to_update] = watermelon_to_update]
    IN  /\ write_watermelons_data(updated, put_ok)
        /\ Respond(IF WriteReturns(put_ok)
                   THEN Resp("update_watermelon", 200, watermelon_id, <<watermelon_to_update>>)
                   ELSE PutRaised("update_watermelon", watermelon_id))
        /\ UNCHANGED <<s3_client, bucket, plFile, uuids, inflight, acked, created>>

\* Mutant: the not-found check tests the index, which is -1 (truthy) when
\* nothing matched, and watermelons_data[-1] is the last record.
update_watermelon_index_check(watermelon_id, payload, put_ok) ==
    LET watermelons_data == read_watermelons_data
        index_to_update == FindId(watermelons_data, watermelon_id, 1)
    IN
    IF index_to_update = 0 /\ watermelons_data = <<>> THEN
        /\ Respond(Resp("update_watermelon", 404, watermelon_id, <<>>))
        /\ UNCHANGED <<s3_client, store, uuids, inflight, acked, created>>
    ELSE
        StoreWatermelonUpdate(watermelons_data,
                              IF index_to_update = 0 THEN Len(watermelons_data)
                              ELSE index_to_update,
                              watermelon_id, payload, put_ok)

update_watermelon(watermelon_id, payload, put_ok) ==
    LET watermelons_data == read_watermelons_data
        index_to_update == FindId(watermelons_data, watermelon_id, 1)
    IN
    IF index_to_update = 0 THEN
        /\ Respond(Resp("update_watermelon", 404, watermelon_id, <<>>))
        /\ UNCHANGED <<s3_client, store, uuids, inflight, acked, created>>
    ELSE
        StoreWatermelonUpdate(watermelons_data, index_to_update, watermelon_id,
                              payload, put_ok)

\* s3_client.delete_object for each key of `keys`; the calls for the keys in
\* `failing` raise ClientError, which the handlers print and ignore.
DeleteObjects(keys, failing) == bucket \ (keys \ failing)

delete_watermelon(watermelon_id, failing, put_ok) ==
    LET watermelons_data == read_watermelons_data
        index_to_delete == FindId(watermelons_data, watermelon_id, 1)
    IN
    IF index_to_delete = 0 THEN
        /\ Respond(Resp("delete_watermelon", 404, watermelon_id, <<>>))
        /\ UNCHANGED <<s3_client, store, uuids, inflight, acked, created>>
    ELSE
        LET watermelon_to_delete == watermelons_data[index_to_delete]
            keys == IF watermelon_to_delete.src # NoUrl /\ s3_client
                    THEN {get_s3_key_from_url(watermelon_to_delete.src)}
                    ELSE {}
        IN  /\ bucket' = DeleteObjects(keys, failing)
            /\ write_watermelons_data(RemoveAt(watermelons_data, index_to_delete), put_ok)
            /\ Respond([ (IF WriteReturns(put_ok)
                           THEN Resp("delete_watermelon", 204, watermelon_id, <<>>)
                           ELSE PutRaised("delete_watermelon", watermelon_id))
                          EXCEPT !.failed = keys \cap failing ])
            /\ acked' = IF WriteReturns(put_ok) THEN acked \cup {watermelon_id} ELSE acked
            /\ UNCHANGED <<s3_client, plFile, uuids, inflight, created>>

----------------------------------------------------------------------------
\* Polaroid records, the AI collaborator and the polaroid store.

Sticker(src) == [src |-> src, x |-> 0, y |-> 0, rotation |-> 0, scale |-> 1]

Polaroid(id, src, description, stickers) ==
    [id |-> id, src |-> src, createdAt |-> "now", description |-> description,
     diary_entry |-> "", stickers |-> stickers]

\* What `await analyse_polaroid_image(...)` can give: an exception, None, or
\* a PolaroidAnalysisResult with a title and a number of chibi tasks.
AnalysisResult(title, ntasks) ==
    [kind |-> "result", short_title |-> title, chibi_tasks |-> ntasks]

AnalysisRaises == [kind |-> "raise", short_title |-> "", chibi_tasks |-> 0]

AnalysisNone == [kind |-> "none", short_title |-> "", chibi_tasks |-> 0]

AnalysisOutcomes ==
    {AnalysisRaises, AnalysisNone}
        \cup {AnalysisResult("AI title", n) : n \in 0..MaxTasks}

\* generate(prompt, task_num) of task i returns one uploaded reference when
\* rendered[i], and [] when the image call or the upload fails.  The file
\* name of an uploaded sticker is a new uuid.
RenderOutcomes(ntasks) == [1..ntasks -> BOOLEAN]

RECURSIVE StickerPaths(_, _, _)
\* all_sticker_paths: the keys uploaded for tasks i.., the first one being `next`.
StickerPaths(rendered, i, next) ==
    IF i > Len(rendered) THEN <<>>
    ELSE IF rendered[i]
         THEN <<next>> \o StickerPaths(rendered, i + 1, next + 1)
         ELSE StickerPaths(rendered, i + 1, next)

\* Mutant: the stickers are attached in the reverse of the task order.
generate_stickers_reversed(rendered, next) ==
    LET all_sticker_paths == StickerPaths(rendered, 1, next)
        n == Len(all_sticker_paths)
    IN  [i \in 1..n |-> [src |-> get_s3_url(all_sticker_paths[n + 1 - i]),
                         x |-> 0, y |-> 0, rotation |-> 0, scale |-> 1]]

generate_stickers_from_analysis(rendered, next) ==
    LET all_sticker_paths == StickerPaths(rendered, 1, next) IN
    [i \in 1..Len(all_sticker_paths) |-> Sticker(get_s3_url(all_sticker_paths[i]))]

StickerKeys(stickers) ==
    {get_s3_key_from_url(stickers[i].src) :
        i \in {j \in 1..Len(stickers) : stickers[j].src # NoUrl}}

read_polaroids_data ==
    IF ~s3_client THEN <<>>
    ELSE IF plFile.kind = "json" THEN plFile.data
    ELSE <<>>

write_polaroids_data(data, put_ok) ==
    IF s3_client /\ put_ok THEN plFile' = JsonFile(data)
    ELSE UNCHANGED plFile

----------------------------------------------------------------------------
\* Suspended handlers.

Idle == [op |-> "idle"]

\* A handler that suspends takes the first free slot.
FreeSlot(slot) ==
    /\ inflight[slot] = Idle
    /\ \A lower \in 1..(slot - 1) : inflight[lower] # Idle

Suspend(slot, frame) == inflight' = [inflight EXCEPT ![slot] = frame]

Finish(slot) == inflight' = [inflight EXCEPT ![slot] = Idle]

----------------------------------------------------------------------------
\* Polaroid endpoints.

get_polaroids ==
    /\ Respond(Resp("get_polaroids", 200, 0, read_polaroids_data))
    /\ UNCHANGED <<s3_client, store, uuids, inflight, acked, created>>

\* Mutant: the new record is written as the whole list, the list read is
\* forgotten.
StorePolaroid_overwrite(image_base64, image_url, description, stickers, used, ai, put_ok) ==
    LET new_polaroid == Polaroid(uuids + used + 1, image_url, description, stickers)
    IN  /\ uuids + used + 1 <= MaxUuid
        /\ uuids' = uuids + used + 1
        /\ write_polaroids_data(<<new_polaroid>>, put_ok)
        /\ Respond([ (IF WriteReturns(put_ok)
                      THEN Resp("create_polaroid", 201, new_polaroid.id, <<new_polaroid>>)
                      ELSE PutRaised("create_polaroid", new_polaroid.id))
                     EXCEPT !.ai = ai.kind, !.tasks = ai.chibi_tasks,
                            !.rendered = Len(stickers), !.image = image_base64 ])
        /\ created' = IF WriteReturns(put_ok)
                      THEN created \cup {<<new_polaroid.id, image_url, "polaroid">>}
                      ELSE created
        /\ UNCHANGED <<s3_client, wmFile, acked>>

\* create_polaroid from `new_polaroid = Polaroid(...)` to its return; `used`
\* uuid4 values were taken earlier in the same step.
StorePolaroid(image_base64, image_url, description, stickers, used, ai, put_ok) ==
    LET new_polaroid == Polaroid(uuids + used + 1, image_url, description, stickers)
        polaroids_data == Append(read_polaroids_data, new_polaroid)
    IN  /\ uuids + used + 1 <= MaxUuid
        /\ uuids' = uuids + used + 1
        /\ write_polaroids_data(polaroids_data, put_ok)
        /\ Respond([ (IF WriteReturns(put_ok)
                      THEN Resp("create_polaroid", 201, new_polaroid.id, <<new_polaroid>>)
                      ELSE PutRaised("create_polaroid", new_polaroid.id))
                     EXCEPT !.ai = ai.kind, !.tasks = ai.chibi_tasks,
                            !.rendered = Len(stickers), !.image = image_base64 ])
        /\ created' = IF WriteReturns(put_ok)
                      THEN created \cup {<<new_polaroid.id, image_url, "polaroid">>}
                      ELSE created
        /\ UNCHANGED <<s3_client, wmFile, acked>>

AnalysisSkipped == [kind |-> "skipped", short_title |-> "", chibi_tasks |-> 0]

\* create_polaroid up to `await analyse_polaroid_image`, and to its end when
\* the payload says skip_ai.
create_polaroid(slot, image_base64, skip_ai, upload_ok, put_ok) ==
    IF ~s3_client THEN
        /\ Respond(CreateResp(Resp("create_polaroid", 500, 0, <<>>), image_base64))
        /\ UNCHANGED <<s3_client, store, uuids, inflight, acked, created>>
    ELSE IF ~(image_base64 \in AcceptedAsPolaroid /\ upload_ok) THEN
        /\ Respond(CreateResp(Resp("create_polaroid", 400, 0, <<>>), image_base64))
        /\ UNCHANGED <<s3_client, store, uuids, inflight, acked, created>>
    ELSE
        LET image_name == uuids + 1
            image_url == get_s3_url(image_name)
        IN  IF skip_ai THEN
                /\ bucket' = bucket \cup {image_name}
                /\ StorePolaroid(image_base64, image_url, "", <<>>, 1,
                                 AnalysisSkipped, put_ok)
                /\ UNCHANGED inflight
            ELSE
                /\ uuids + 2 <= MaxUuid
                /\ FreeSlot(slot)
                /\ uuids' = uuids + 1
                /\ bucket' = bucket \cup {image_name}
                /\ Suspend(slot, [op |-> "create_polaroid", image_url |-> image_url])
                /\ Respond(CreateResp(Resp("create_polaroid_await", 0, 0, <<>>), image_base64))
                /\ UNCHANGED <<s3_client, wmFile, plFile, acked, created>>

\* Mutant: the await is outside the try block, an exception of the analysis
\* ends the request.
create_polaroid_resume_uncaught(slot, analysis_result, rendered, put_ok) ==
    /\ inflight[slot].op = "create_polaroid"
    /\ rendered \in RenderOutcomes(analysis_result.chibi_tasks)
    /\ Finish(slot)
    /\ IF analysis_result.kind = "raise" THEN
            /\ Respond([Resp("create_polaroid", 500, 0, <<>>) EXCEPT !.ai = "raise"])
            /\ UNCHANGED <<s3_client, store, uuids, acked, created>>
       ELSE
            LET stickers ==
                    IF analysis_result.kind = "result" /\ analysis_result.chibi_tasks > 0
                    THEN generate_stickers_from_analysis(rendered, uuids + 1)
                    ELSE <<>>
            IN  /\ bucket' = bucket \cup StickerKeys(stickers)
                /\ StorePolaroid(<<>>, inflight[slot].image_url,
                                 analysis_result.short_title,
                                 stickers, Len(stickers), analysis_result, put_ok)

\* create_polaroid from the return of the await to its end.
create_polaroid_resume(slot, analysis_result, rendered, put_ok) ==
    /\ inflight[slot].op = "create_polaroid"
    /\ rendered \in RenderOutcomes(analysis_result.chibi_tasks)
    /\ LET image_url == inflight[slot].image_url
           \* an exception or None leaves initial_description = "", stickers = []
           initial_description ==
               IF analysis_result.kind = "result" THEN analysis_result.short_title ELSE ""
           stickers ==
               IF analysis_result.kind = "result" /\ analysis_result.chibi_tasks > 0
               THEN generate_stickers_from_analysis(rendered, uuids + 1)
               ELSE <<>>
       IN  /\ bucket' = bucket \cup StickerKeys(stickers)
           /\ StorePolaroid(<<>>, image_url, initial_description, stickers,
                            Len(stickers), analysis_result, put_ok)
           /\ Finish(slot)

\* regenerate_stickers_for_polaroid up to `await analyse_polaroid_image`.
regenerate_stickers_for_polaroid(slot, polaroid_id) ==
    LET polaroids_data == read_polaroids_data
        index_to_update == FindId(polaroids_data, polaroid_id, 1)
        Fails(status) ==
            /\ Respond(Resp("regenerate_stickers", status, polaroid_id, <<>>))
            /\ UNCHANGED <<s3_client, store, uuids, inflight, acked, created>>
    IN
    IF ~s3_client THEN Fails(500)
    ELSE IF index_to_update = 0 THEN Fails(404)
    ELSE IF polaroids_data[index_to_update].src = NoUrl THEN Fails(404)
    ELSE IF get_s3_key_from_url(polaroids_data[index_to_update].src) \notin bucket
         THEN Fails(500)                              \* get_object: NoSuchKey
    ELSE
        /\ FreeSlot(slot)
        /\ Suspend(slot, [op |-> "regenerate_stickers", polaroid_id |-> polaroid_id,
                          polaroids_data |-> polaroids_data,
                          index_to_update |-> index_to_update])
        /\ Respond(Resp("regenerate_stickers_await", 0, polaroid_id, <<>>))
        /\ UNCHANGED <<s3_client, store, uuids, acked, created>>

\* regenerate_stickers_for_polaroid from "Delete old sticker images from S3"
\* to its return.
ReplaceStickers(slot, analysis_result, rendered, failing, put_ok) ==
    LET polaroid_id == inflight[slot].polaroid_id
        polaroids_data == inflight[slot].polaroids_data
        index_to_update == inflight[slot].index_to_update
        polaroid_to_update == polaroids_data[index_to_update]
        old_keys == StickerKeys(polaroid_to_update.stickers)
        new_stickers ==
            IF analysis_result.chibi_tasks > 0
            THEN generate_stickers_from_analysis(rendered, uuids + 1)
            ELSE <<>>
        updated == [polaroid_to_update EXCEPT
                       !.description = analysis_result.short_title,
                       !.stickers = new_stickers]
    IN  /\ rendered \in RenderOutcomes(analysis_result.chibi_tasks)
        /\ failing \subseteq old_keys
        /\ uuids + Len(new_stickers) <= MaxUuid
        /\ uuids' = uuids + Len(new_stickers)
        /\ bucket' = DeleteObjects(old_keys, failing) \cup StickerKeys(new_stickers)
        /\ write_polaroids_data(
               [polaroids_data EXCEPT ![index_to_update] = updated], put_ok)
        /\ Respond([ (IF WriteReturns(put_ok)
                      THEN Resp("regenerate_stickers", 200, polaroid_id, <<updated>>)
                      ELSE PutRaised("regenerate_stickers", polaroid_id))
                     EXCEPT !.ai = analysis_result.kind,
                            !.tasks = analysis_result.chibi_tasks,
                            !.rendered = Len(new_stickers),
                            !.failed = failing ])
        /\ UNCHANGED <<s3_client, wmFile, acked, created>>

\* Mutant: a failed analysis is logged and the stored record returned as it is.
regenerate_stickers_resume_swallow(slot, analysis_result, rendered, failing, put_ok) ==
    /\ inflight[slot].op = "regenerate_stickers"
    /\ Finish(slot)
    /\ IF analysis_result.kind # "result" THEN
           /\ rendered = <<>>
           /\ failing = {}
           /\ Respond([Resp("regenerate_stickers", 200, inflight[slot].polaroid_id,
                            <<inflight[slot].polaroids_data[inflight[slot].index_to_update]>>)
                       EXCEPT !.ai = analysis_result.kind])
           /\ UNCHANGED <<s3_client, store, uuids, acked, created>>
       ELSE ReplaceStickers(slot, analysis_result, rendered, failing, put_ok)

\* Mutant: the old sticker images are deleted before the analysis is looked at.
regenerate_stickers_resume_delete_first(slot, analysis_result, rendered, failing, put_ok) ==
    /\ inflight[slot].op = "regenerate_stickers"
    /\ Finish(slot)
    /\ IF analysis_result.kind # "result" THEN
           /\ rendered = <<>>
           /\ failing = {}
           /\ bucket' = DeleteObjects(
                  StickerKeys(inflight[slot].polaroids_data[
                                  inflight[slot].index_to_update].stickers), failing)
           /\ Respond([Resp("regenerate_stickers", 500, inflight[slot].polaroid_id, <<>>)
                       EXCEPT !.ai = analysis_result.kind])
           /\ UNCHANGED <<s3_client, wmFile, plFile, uuids, acked, created>>
       ELSE ReplaceStickers(slot, analysis_result, rendered, failing, put_ok)

\* regenerate_stickers_for_polaroid from the return of the await to its end.
regenerate_stickers_resume(slot, analysis_result, rendered, failing, put_ok) ==
    /\ inflight[slot].op = "regenerate_stickers"
    /\ Finish(slot)
    /\ IF analysis_result.kind # "result" THEN
           /\ rendered = <<>>
           /\ failing = {}
           /\ Respond([Resp("regenerate_stickers", 500, inflight[slot].polaroid_id, <<>>)
                       EXCEPT !.ai = analysis_result.kind])
           /\ UNCHANGED <<s3_client, store, uuids, acked, created>>
       ELSE ReplaceStickers(slot, analysis_result, rendered, failing, put_ok)

\* The request bodies tried for PUT /polaroids/{id}: no sticker, the stored
\* stickers of the record moved, or one sticker whose src is the reference
\* of the record's own image.
Moved(stickers) ==
    [i \in 1..Len(stickers) |-> [stickers[i] EXCEPT !.x = 7, !.rotation = 90]]

StickerPayloads(polaroid_id) ==
    LET data == read_polaroids_data
        i == FindId(data, polaroid_id, 1)
    IN  {<<>>}
            \cup (IF i = 0 THEN {} ELSE {Moved(data[i].stickers), <<Sticker(data[i].src)>>})

PolaroidUpdates(polaroid_id) ==
    {[createdAt |-> "edited", description |-> "edited", diary_entry |-> "dear diary",
      stickers |-> st] : st \in StickerPayloads(polaroid_id)}

\* update_polaroid from "Replace the old dictionary" to its return.
StorePolaroidUpdate(polaroids_data, index_to_update, updated_model, put_ok) ==
    /\ write_polaroids_data(
           [polaroids_data EXCEPT ![index_to_update] = updated_model], put_ok)
    /\ Respond(IF WriteReturns(put_ok)
               THEN Resp("update_polaroid", 200, updated_model.id, <<updated_model>>)
               ELSE PutRaised("update_polaroid", updated_model.id))
    /\ UNCHANGED <<s3_client, bucket, wmFile, uuids, inflight, acked, created>>

\* Mutant: the model is rebuilt from the payload alone, which has no src.
update_polaroid_payload_only(polaroid_id, payload, put_ok) ==
    LET polaroids_data == read_polaroids_data
        index_to_update == FindId(polaroids_data, polaroid_id, 1)
    IN
    IF index_to_update = 0 THEN
        /\ Respond(Resp("update_polaroid", 404, polaroid_id, <<>>))
        /\ UNCHANGED <<s3_client, store, uuids, inflight, acked, created>>
    ELSE
        StorePolaroidUpdate(polaroids_data, index_to_update,
            [id |-> polaroid_id,
             src |-> NoUrl,
             description |-> payload.description,
             diary_entry |-> payload.diary_entry,
             createdAt |-> payload.createdAt,
             stickers |-> payload.stickers], put_ok)

update_polaroid(polaroid_id, payload, put_ok) ==
    LET polaroids_data == read_polaroids_data
        index_to_update == FindId(polaroids_data, polaroid_id, 1)
    IN
    IF index_to_update = 0 THEN
        /\ Respond(Resp("update_polaroid", 404, polaroid_id, <<>>))
        /\ UNCHANGED <<s3_client, store, uuids, inflight, acked, created>>
    ELSE
        LET polaroid_to_update == polaroids_data[index_to_update]
            updated_model ==
                [id |-> polaroid_id,
                 src |-> polaroid_to_update.src,
                 description |-> payload.description,
                 diary_entry |-> payload.diary_entry,
                 createdAt |-> payload.createdAt,
                 stickers |-> payload.stickers]
        IN  StorePolaroidUpdate(polaroids_data, index_to_update, updated_model, put_ok)

\* Mutant: the ClientError of delete_object is not caught, the first image
\* that cannot be deleted ends the request.
RemovePolaroid_abort(polaroids_data, index_to_delete, polaroid_id, keys, failing, put_ok) ==
    IF keys \cap failing # {} THEN
        /\ Respond([Resp("delete_polaroid", 500, polaroid_id, <<>>)
                    EXCEPT !.failed = keys \cap failing])
        /\ UNCHANGED <<s3_client, store, uuids, inflight, acked, created>>
    ELSE
        /\ bucket' = DeleteObjects(keys, failing)
        /\ write_polaroids_data(RemoveAt(polaroids_data, index_to_delete), put_ok)
        /\ Respond(IF WriteReturns(put_ok)
                   THEN Resp("delete_polaroid", 204, polaroid_id, <<>>)
                   ELSE PutRaised("delete_polaroid", polaroid_id))
        /\ acked' = IF WriteReturns(put_ok) THEN acked \cup {polaroid_id} ELSE acked
        /\ UNCHANGED <<s3_client, wmFile, uuids, inflight, created>>

\* delete_polaroid from the delete_object calls for `keys` to its return.
RemovePolaroid(polaroids_data, index_to_delete, polaroid_id, keys, failing, put_ok) ==
    /\ bucket' = DeleteObjects(keys, failing)
    /\ write_polaroids_data(RemoveAt(polaroids_data, index_to_delete), put_ok)
    /\ Respond([ (IF WriteReturns(put_ok)
                  THEN Resp("delete_polaroid", 204, polaroid_id, <<>>)
                  ELSE PutRaised("delete_polaroid", polaroid_id))
                 EXCEPT !.failed = keys \cap failing ])
    /\ acked' = IF WriteReturns(put_ok) THEN acked \cup {polaroid_id} ELSE acked
    /\ UNCHANGED <<s3_client, wmFile, uuids, inflight, created>>

\* Mutant: only the main image is deleted, the stickers are left behind.
delete_polaroid_main_image_only(polaroid_id, failing, put_ok) ==
    LET polaroids_data == read_polaroids_data
        index_to_delete == FindId(polaroids_data, polaroid_id, 1)
    IN
    IF index_to_delete = 0 THEN
        /\ Respond(Resp("delete_polaroid", 404, polaroid_id, <<>>))
        /\ UNCHANGED <<s3_client, store, uuids, inflight, acked, created>>
    ELSE
        RemovePolaroid(polaroids_data, index_to_delete, polaroid_id,
                       {get_s3_key_from_url(polaroids_data[index_to_delete].src)},
                       failing, put_ok)

delete_polaroid(polaroid_id, failing, put_ok) ==
    LET polaroids_data == read_polaroids_data
        index_to_delete == FindId(polaroids_data, polaroid_id, 1)
    IN
    IF index_to_delete = 0 THEN
        /\ Respond(Resp("delete_polaroid", 404, polaroid_id, <<>>))
        /\ UNCHANGED <<s3_client, store, uuids, inflight, acked, created>>
    ELSE
        LET polaroid_to_delete == polaroids_data[index_to_delete]
            keys == IF ~s3_client THEN {}
                    ELSE (IF polaroid_to_delete.src # NoUrl
                          THEN {get_s3_key_from_url(polaroid_to_delete.src)}
                          ELSE {})
                         \cup StickerKeys(polaroid_to_delete.stickers)
        IN  RemovePolaroid(polaroids_data, index_to_delete, polaroid_id, keys,
                           failing, put_ok)

----------------------------------------------------------------------------

\* The list objects are absent, empty or not JSON before the first write.
Init ==
    /\ s3_client \in BOOLEAN
    /\ bucket = {}
    /\ \E kinds \in {<<"missing", "missing">>, <<"empty", "corrupt">>, <<"corrupt", "empty">>} :
           /\ wmFile = EmptyFile(kinds[1])
           /\ plFile = EmptyFile(kinds[2])
    /\ uuids = 0
    /\ inflight = [i \in 1..MaxInFlight |-> Idle]
    /\ last = NoRequest
    /\ acked = {}
    /\ created = {}

Slots == 1..MaxInFlight

\* The environment's choices that a request can observe: an upload is only
\* tried for an accepted image, a list is only written after the upload.
UploadChoices(accepted) == IF s3_client /\ accepted THEN BOOLEAN ELSE {TRUE}


\* The old sticker objects that a suspended regeneration will try to delete.
FrameKeys(slot) ==
    IF inflight[slot].op # "regenerate_stickers" THEN {}
    ELSE StickerKeys(inflight[slot].polaroids_data[inflight[slot].index_to_update].stickers)

PutChoices(reached) == IF s3_client /\ reached THEN BOOLEAN ELSE {TRUE}

Stored(data, id) == FindId(data, id, 1) # 0

\* The image objects that a DELETE of the record tries to delete.
KeysOf(data, id) ==
    IF ~Stored(data, id) THEN {}
    ELSE LET rec == data[FindId(data, id, 1)] IN
         {get_s3_key_from_url(rec.src)}
             \cup (IF "stickers" \in DOMAIN rec THEN StickerKeys(rec.stickers) ELSE {})

Next ==
    \/ get_watermelons
    \/ \E p \in ImagePayloads : \E u \in UploadChoices(p \in AcceptedAsWatermelon) :
           \E w \in PutChoices(u) : create_watermelon(p, u, w)
    \/ \E id \in PathIds("watermelon"), p \in WatermelonUpdates :
           \E w \in PutChoices(Stored(read_watermelons_data, id)) : update_watermelon(id, p, w)
    \/ \E id \in PathIds("watermelon") : \E f \in SUBSET KeysOf(read_watermelons_data, id) :
           \E w \in PutChoices(Stored(read_watermelons_data, id)) : delete_watermelon(id, f, w)
    \/ get_polaroids
    \/ \E s \in Slots, p \in ImagePayloads, k \in BOOLEAN :
           \E u \in UploadChoices(p \in AcceptedAsPolaroid) : \E w \in PutChoices(u /\ k) :
               create_polaroid(s, p, k, u, w)
    \/ \E s \in Slots, a \in AnalysisOutcomes, w \in BOOLEAN :
           \E r \in RenderOutcomes(a.chibi_tasks) : create_polaroid_resume(s, a, r, w)
    \/ \E s \in Slots, id \in PathIds("polaroid") : regenerate_stickers_for_polaroid(s, id)
    \/ \E s \in Slots, a \in AnalysisOutcomes :
           \E f \in (IF a.kind = "result" THEN SUBSET FrameKeys(s) ELSE {{}}),
              w \in PutChoices(a.kind = "result") :
               \E r \in RenderOutcomes(a.chibi_tasks) :
                   regenerate_stickers_resume(s, a, r, f, w)
    \/ \E id \in PathIds("polaroid") : \E p \in PolaroidUpdates(id) :
           \E w \in PutChoices(Stored(read_polaroids_data, id)) : update_polaroid(id, p, w)
    \/ \E id \in PathIds("polaroid") : \E f \in SUBSET KeysOf(read_polaroids_data, id) :
           \E w \in PutChoices(Stored(read_polaroids_data, id)) : delete_polaroid(id, f, w)

Spec == Init /\ [][Next]_vars

----------------------------------------------------------------------------
\* Properties.

\* The records of a stored list; an absent, empty or non-JSON object holds none.
Listed(file) == IF file.kind = "json" THEN file.data ELSE <<>>

\* The step taken is a step of the handler `op`.
Took(op) == last'.seq = last.seq + 1 /\ last'.op = op

\* The image objects a polaroid or watermelon record refers to.
ImagesOf(rec) ==
    {rec.src.path}
        \cup (IF "stickers" \in DOMAIN rec
              THEN {rec.stickers[i].src.path : i \in 1..Len(rec.stickers)}
              ELSE {})

RecordOf(data, id) == data[CHOOSE i \in 1..Len(data) : data[i].id = id]

\* C1: a PUT whose id matches no record of the stored list is answered 404 and
\* leaves both record lists and the image store as they were.
C1_UpdateUnknownId ==
    [][ /\ (Took("update_watermelon") /\ last'.id \notin Ids(Listed(wmFile)))
            => (last'.status = 404 /\ store' = store)
        /\ (Took("update_polaroid") /\ last'.id \notin Ids(Listed(plFile)))
            => (last'.status = 404 /\ store' = store) ]_vars

\* C1 happens: a PUT with an unknown id was answered while records are stored.
C1_Witness ==
    /\ last.op = "update_watermelon"
    /\ last.status = 404
    /\ Listed(wmFile) # <<>>
    /\ last.id \notin Ids(Listed(wmFile))

\* C2: a record whose DELETE was answered 204 is in no later list result.
\* (The result of GET is read_polaroids_data / read_watermelons_data.)
C2_DeletedStaysAbsent ==
    \A id \in acked :
        /\ id \notin Ids(read_polaroids_data)
        /\ id \notin Ids(read_watermelons_data)

\* C3 as claimed: after a DELETE answered 204 none of the images of the
\* record (main image and sticker images) is in the image store.
C3_AllImagesRemoved ==
    [][ /\ (Took("delete_polaroid") /\ last'.status = 204)
            => ImagesOf(RecordOf(Listed(plFile), last'.id)) \cap bucket' = {}
        /\ (Took("delete_watermelon") /\ last'.status = 204)
            => ImagesOf(RecordOf(Listed(wmFile), last'.id)) \cap bucket' = {} ]_vars

\* C3 amended: after a DELETE answered 204 no image of the record is in the
\* image store, except those whose delete_object call raised.
C3_ImagesRemovedUnlessDeleteFails ==
    [][ /\ (Took("delete_polaroid") /\ last'.status = 204)
            => ImagesOf(RecordOf(Listed(plFile), last'.id)) \cap bucket' \subseteq last'.failed
        /\ (Took("delete_watermelon") /\ last'.status = 204)
            => ImagesOf(RecordOf(Listed(wmFile), last'.id)) \cap bucket' \subseteq last'.failed ]_vars

\* C3 happens: the only record ever created, a polaroid with two stickers,
\* was deleted with every delete_object call returning; the store is empty.
C3_Witness ==
    /\ last.op = "delete_polaroid"
    /\ last.status = 204
    /\ last.failed = {}
    /\ last.seq = 3
    /\ uuids = 4
    /\ Cardinality(created) = 1
    /\ bucket = {}

\* The image payloads that the claim wants refused: not a well-formed
\* data:<type>/<subtype>;base64,<data> (data in quads of base64 symbols,
\* "=" only as the last one or two symbols), or an extension not allowed.
WellFormed(p) ==
    /\ Len(p) >= 8
    /\ <<p[1], p[2], p[4], p[6], p[7], p[8]>> = <<"data", ":", "/", ";", "base64", ",">>
    /\ LET body == SubSeq(p, 9, Len(p)) IN
       /\ Len(body) % 4 = 0
       /\ \A i \in 1..Len(body) :
              \/ body[i] \in Base64Alphabet
              \/ body[i] = "=" /\ i >= Len(body) - 1
                              /\ \A j \in i..Len(body) : body[j] = "="

Refusable(p, allowed) == ~WellFormed(p) \/ <<p[5]>> \notin allowed

\* C4 (stated for a configured storage client and a list write that does
\* not raise): a create whose image is malformed or has an extension outside
\* the allow-list is answered 4xx and writes nothing.
C4_BadImageRefused ==
    [][ /\ (s3_client /\ Took("create_watermelon") /\ ~last'.put_raised
                /\ Refusable(last'.image, WatermelonExts))
            => (last'.status \in 400..499 /\ store' = store)
        /\ (s3_client /\ (Took("create_polaroid") \/ Took("create_polaroid_await"))
                /\ ~last'.put_raised
                /\ last'.image # <<>> /\ Refusable(last'.image, PolaroidExts))
            => (last'.status \in 400..499 /\ store' = store) ]_vars

\* The AI collaborator failed in the handler step described by r: the
\* analysis raised or returned nothing, or no render call gave a reference.
AnalysisFailed(r) == r.ai \in {"raise", "none"}

RenderFailed(r) == r.ai = "result" /\ r.tasks > 0 /\ r.rendered = 0

\* C5 as claimed (for requests whose list write does not raise): when the AI
\* collaborator fails, POST /polaroids answers 201 with a record that has no
\* sticker and an empty description.
C5_AIFailureEmptyRecord ==
    (last.op = "create_polaroid" /\ ~last.put_raised
        /\ (AnalysisFailed(last) \/ RenderFailed(last)))
    => /\ last.status = 201
       /\ last.body[1].stickers = <<>>
       /\ last.body[1].description = ""

\* C5 amended: when the AI collaborator fails, POST /polaroids answers 201
\* unless the list write raises, and the record it appends has no sticker;
\* its description is empty when the analysis failed and is the title of the
\* analysis when only the rendering failed.
C5_AIFailureStillCreates ==
    [][ (Took("create_polaroid") /\ (AnalysisFailed(last') \/ RenderFailed(last')))
        => IF last'.put_raised
           THEN last'.status = 500 /\ plFile' = plFile
           ELSE /\ last'.status = 201
                /\ Len(last'.body) = 1
                /\ Listed(plFile') = Append(Listed(plFile), last'.body[1])
                /\ last'.body[1].stickers = <<>>
                /\ AnalysisFailed(last') => last'.body[1].description = ""
                /\ RenderFailed(last') => last'.body[1].description = "AI title" ]_vars

\* C5 happens: a polaroid was created although the analysis raised.
C5_Witness ==
    /\ last.op = "create_polaroid"
    /\ last.ai = "raise"
    /\ last.status = 201
    /\ Len(Listed(plFile)) >= 1
    /\ Listed(plFile)[Len(Listed(plFile))].id = last.id

\* C6: the src of every stored record is the src it was created with.
C6_SrcImmutable ==
    \A c \in created :
        /\ \A i \in 1..Len(Listed(wmFile)) :
              Listed(wmFile)[i].id = c[1] => Listed(wmFile)[i].src = c[2]
        /\ \A i \in 1..Len(Listed(plFile)) :
              Listed(plFile)[i].id = c[1] => Listed(plFile)[i].src = c[2]

\* C6 happens: a stored polaroid has been through a PUT and then through a
\* sticker regeneration.
C6_Witness ==
    /\ last.op = "regenerate_stickers"
    /\ last.status = 200
    /\ \E i \in 1..Len(Listed(plFile)) :
          /\ Listed(plFile)[i].id = last.id
          /\ Listed(plFile)[i].createdAt = "edited"
          /\ Listed(plFile)[i].description = "AI title"

\* C7: without a storage client every request is answered 5xx.
C7_NoStorageIs5xx ==
    (~s3_client /\ last.op # "none") => last.status \in 500..599

\* C8 as claimed (for requests whose list write does not raise): a failure
\* of the AI collaborator is never answered with an error.
C8_AIFailureNeverAnError ==
    (last.op \in {"create_polaroid", "regenerate_stickers"} /\ ~last.put_raised
        /\ (AnalysisFailed(last) \/ RenderFailed(last)))
    => last.status \in 200..299

\* C8 amended: a failure of the AI collaborator is not answered with an error
\* by POST /polaroids; POST /polaroids/{id}/stickers answers 500 when the
\* analysis fails and swallows only the failure of render calls, answering
\* 200 with the stickers that were rendered.
C8_AIFailureSurfacesOnlyInRegenerate ==
    /\ (last.op = "create_polaroid" /\ ~last.put_raised
            /\ (AnalysisFailed(last) \/ RenderFailed(last)))
        => last.status = 201
    /\ (last.op = "regenerate_stickers" /\ AnalysisFailed(last))
        => last.status = 500
    /\ (last.op = "regenerate_stickers" /\ ~last.put_raised
            /\ last.ai = "result" /\ last.rendered < last.tasks)
        => (last.status = 200 /\ Len(last.body[1].stickers) = last.rendered)

\* C8 happens: a regeneration was answered 500 because the analysis raised.
C8_Witness ==
    /\ last.op = "regenerate_stickers"
    /\ last.ai = "raise"
    /\ last.status = 500

\* C9: a POST /watermelons answered 201 appends a record with both ratings
\* at 50/50/50 to the stored list, whatever the image and the list.
C9_DefaultRatings ==
    [][ (Took("create_watermelon") /\ last'.status = 201)
        => /\ Len(last'.body) = 1
           /\ last'.body[1].rachy = [texture |-> 50, juiciness |-> 50, sweetness |-> 50]
           /\ last'.body[1].davey = [texture |-> 50, juiciness |-> 50, sweetness |-> 50]
           /\ Listed(wmFile') = Append(Listed(wmFile), last'.body[1]) ]_vars

\* C9 happens: a watermelon was created next to one whose ratings were edited.
C9_Witness ==
    /\ last.op = "create_watermelon"
    /\ last.status = 201
    /\ Len(Listed(wmFile)) = 2
    /\ Listed(wmFile)[1].createdAt = "edited"
    /\ Listed(wmFile)[2] = last.body[1]

\* C10: with a list object that is absent, empty or not JSON, a list request
\* is answered 200 with the empty list and a create writes a list holding
\* the new record only.
C10_UnreadableListIsEmpty ==
    [][ /\ (s3_client /\ wmFile.kind \in {"missing", "empty", "corrupt"})
            => /\ Took("get_watermelons") => (last'.status = 200 /\ last'.body = <<>>)
               /\ (Took("create_watermelon") /\ last'.status = 201)
                     => wmFile' = [kind |-> "json", data |-> last'.body]
        /\ (s3_client /\ plFile.kind \in {"missing", "empty", "corrupt"})
            => /\ Took("get_polaroids") => (last'.status = 200 /\ last'.body = <<>>)
               /\ (Took("create_polaroid") /\ last'.status = 201)
                     => plFile' = [kind |-> "json", data |-> last'.body] ]_vars

\* C10 happens: the watermelon list object was not JSON, a list request saw
\* the empty list and the create after it wrote a one-record list.
C10_Witness ==
    /\ last.seq = 2
    /\ last.op = "create_watermelon"
    /\ last.status = 201
    /\ plFile.kind = "empty"
    /\ Len(Listed(wmFile)) = 1

\* A handler that was suspended at `await analyse_polaroid_image` in
\* regenerate_stickers_for_polaroid runs to its end in this step.
RegenerateResumes ==
    \E slot \in Slots : inflight[slot].op = "regenerate_stickers" /\ inflight'[slot] = Idle

\* The records of `file` that this step drops from the stored list.
Dropped(before, after) == Ids(Listed(before)) \ Ids(Listed(after))

\* C11: the read / mutate / write cycle of a list is not atomic across an
\* await.  A step drops a stored record other than the one its own DELETE
\* names only when it is the write of regenerate_stickers_for_polaroid with
\* the list it read before its await (last writer wins); the handlers that
\* read and write in one piece never drop the record of another request.
C11_LostUpdateOnlyByStaleWrite ==
    [][ /\ Dropped(wmFile, wmFile') \subseteq
              (IF Took("delete_watermelon") THEN {last'.id} ELSE {})
        /\ ~RegenerateResumes =>
              Dropped(plFile, plFile') \subseteq
                  (IF Took("delete_polaroid") THEN {last'.id} ELSE {}) ]_vars

\* C11 happens: POST /polaroids was answered 201 for a record while a sticker
\* regeneration of another record was awaiting; the regeneration then wrote
\* its list, and the acknowledged record, never deleted, is not stored.
C11_Witness ==
    /\ last.op = "regenerate_stickers"
    /\ last.status = 200
    /\ \E c \in created :
          /\ c[3] = "polaroid"
          /\ c[1] \notin acked
          /\ c[1] # last.id
          /\ c[1] \notin Ids(Listed(plFile))

\* The frame of the regeneration that runs to its end in this step, and the
\* record it read before its await.
ResumedFrame ==
    inflight[CHOOSE slot \in Slots :
                 inflight[slot].op = "regenerate_stickers" /\ inflight'[slot] = Idle]

ReadRecord(frame) == frame.polaroids_data[frame.index_to_update]

\* The sticker collection made of the references uploaded in this step, in
\* the order of their upload, each with the default placement.
FreshStickers ==
    [i \in 1..(uuids' - uuids) |->
        [src |-> get_s3_url(uuids + i), x |-> 0, y |-> 0, rotation |-> 0, scale |-> 1]]

\* What a regeneration answered 200 stores: the record it read with the new
\* stickers and the title of the analysis.
RegeneratedAsSpecified ==
    LET old == ReadRecord(ResumedFrame)
        new == RecordOf(Listed(plFile'), last'.id)
    IN  /\ last'.id \in Ids(Listed(plFile'))
        /\ new.stickers = FreshStickers
        /\ StickerKeys(new.stickers) \subseteq bucket'
        /\ new.description = "AI title"
        /\ new = [old EXCEPT !.stickers = new.stickers, !.description = new.description]

\* A POST /polaroids/{id}/stickers with storage configured and an id that no
\* stored record has is answered 404 and changes nothing.
RegenerateUnknownId ==
    (Took("regenerate_stickers") /\ ~RegenerateResumes
        /\ s3_client /\ last'.id \notin Ids(Listed(plFile)))
    => (last'.status = 404 /\ store' = store)

\* C12 as claimed: a regeneration answered 200 leaves no old sticker image of
\* the record in the image store and stores the record with exactly the
\* rendered references, in task order, default placement, and the analysis
\* title as description; an unknown id yields 404.
C12_RegenerateReplacesStickers ==
    [][ /\ (Took("regenerate_stickers") /\ last'.status = 200)
            => /\ StickerKeys(ReadRecord(ResumedFrame).stickers) \cap bucket' = {}
               /\ RegeneratedAsSpecified
        /\ RegenerateUnknownId ]_vars

\* C12 amended: as claimed, except that an old sticker image whose
\* delete_object call raised stays in the image store.
C12_RegenerateReplacesUnlessDeleteFails ==
    [][ /\ (Took("regenerate_stickers") /\ last'.status = 200)
            => /\ StickerKeys(ReadRecord(ResumedFrame).stickers) \cap bucket'
                      \subseteq last'.failed
               /\ RegeneratedAsSpecified
        /\ RegenerateUnknownId ]_vars

\* C12 happens: a polaroid created with one sticker (image 1, sticker 2, id 3)
\* had its stickers regenerated: sticker 2 is deleted, sticker 4 is stored.
C12_Witness ==
    /\ last.op = "regenerate_stickers"
    /\ last.status = 200
    /\ last.failed = {}
    /\ last.rendered = 1
    /\ bucket = {1, 4}
    /\ Len(Listed(plFile)) = 1
    /\ StickerKeys(Listed(plFile)[1].stickers) = {4}

\* The owners of image references in the stored lists: <<list, record id, 0>>
\* for a record's src and <<list, record id, i>> for its i-th sticker's src.
Owners ==
    {<<"watermelon", w.id, 0>> : w \in {Listed(wmFile)[i] : i \in 1..Len(Listed(wmFile))}}
    \cup {<<"polaroid", Listed(plFile)[i].id, j>> :
             i \in 1..Len(Listed(plFile)), j \in 0..MaxTasks}

\* The reference an owner holds, NoUrl when there is no such sticker.
RefOf(owner) ==
    LET data == IF owner[1] = "watermelon" THEN Listed(wmFile) ELSE Listed(plFile)
        rec == RecordOf(data, owner[2])
    IN  IF owner[3] = 0 THEN rec.src
        ELSE IF owner[3] <= Len(rec.stickers) THEN rec.stickers[owner[3]].src
        ELSE NoUrl

\* C13: in every reachable state no image reference is the src of two
\* different records or stickers of the stored lists.
C13_ImageOwnedOnce ==
    \A a, b \in Owners :
        (a # b /\ RefOf(a) # NoUrl /\ RefOf(b) # NoUrl) => RefOf(a) # RefOf(b)

\* A DELETE of `entity` in which delete_object raised for some image ignores
\* it: every other image of the record is removed and, the list write
\* returning, the record is removed from the stored list and 204 answered.
DeleteIgnoresFailure(op, before, after) ==
    (Took(op) /\ last'.failed # {})
    => /\ ImagesOf(RecordOf(Listed(before), last'.id)) \cap bucket' \subseteq last'.failed
       /\ ~last'.put_raised
            => /\ last'.status = 204
               /\ last'.id \notin Ids(Listed(after))

\* C14: during a cascading DELETE a failure to delete an image object is
\* ignored: the remaining images are still deleted, the record is still
\* removed from the stored list and the request still answers 204.
C14_DeleteFailureIgnored ==
    [][ /\ DeleteIgnoresFailure("delete_polaroid", plFile, plFile')
        /\ DeleteIgnoresFailure("delete_watermelon", wmFile, wmFile') ]_vars

\* C14 happens: a polaroid with one sticker (image 1, sticker 2, id 3) was
\* deleted, delete_object raised for image 1: the sticker image is gone, the
\* record is gone, the answer is 204.
C14_Witness ==
    /\ last.op = "delete_polaroid"
    /\ last.status = 204
    /\ last.failed = {1}
    /\ last.id = 3
    /\ bucket = {1}
    /\ Listed(plFile) = <<>>

\* A POST /polaroids/{id}/stickers is answered with an error in this step.
RegenerateFails == Took("regenerate_stickers") /\ last'.status >= 400

StoredRecords ==
    {Listed(wmFile)[i] : i \in 1..Len(Listed(wmFile))}
        \cup {Listed(plFile)[i] : i \in 1..Len(Listed(plFile))}

\* C16: in every reachable state the src of every record of a stored list
\* refers to an image object that is in the image store.
C16_NoDanglingMainImage ==
    \A rec \in StoredRecords : get_s3_key_from_url(rec.src) \in bucket

====
